---- MODULE Spec2Model ----
(***************************************************************************)
(* The inline AI overlay of obsidian-inlineAI: the selection / response    *)
(* state fields, the diff decoration field, the deferred commit of the     *)
(* apply-diff plugin, the floating widget and the chat API manager.        *)
(*                                                                         *)
(* Texts are sequences of one-character strings; buffer offsets are        *)
(* 0-based as in the editor, so the range [from, to) of a text t is        *)
(* SubSeq(t, from + 1, to).                                                *)
(***************************************************************************)
EXTENDS Integers, Sequences, FiniteSets, Bags, TLC

\* ------------------------------------------------------------------ bounds

\* Longest initial buffer.
MaxDocLen == 1
\* Longest text the language model returns.
MaxContentLen == 1
\* Number of times the assist command is invoked in one behaviour.
MaxInvokes == 2
\* Number of language-model requests started in one behaviour.
MaxSubmits == 2

\* ------------------------------------------------------------------- texts

\* null / undefined: no SelectionInfo, no AIResponse, no widget.
Null == [null |-> TRUE]

\* The characters of buffer and model texts: a letter and a blank.
Alphabet == {"a", " "}

Whitespace == {" "}

RECURSIVE TextsOfLen(_)
TextsOfLen(n) ==
    IF n = 0 THEN {<<>>}
    ELSE {Append(t, c) : t \in TextsOfLen(n - 1), c \in Alphabet}

TextsUpTo(n) == UNION {TextsOfLen(k) : k \in 0..n}

\* String.prototype.trim() === "" : only white space.
TrimIsEmpty(t) == \A i \in 1..Len(t) : t[i] \in Whitespace

\* doc.sliceString(from, to)
sliceString(doc, from, to) == SubSeq(doc, from + 1, to)

\* ------------------------------------------------- diff (diff-match-patch)

DIFF_DELETE == "delete"
DIFF_INSERT == "insert"
DIFF_EQUAL == "equal"

Seg(op, text) == [op |-> op, text |-> text]

Min(a, b) == IF a < b THEN a ELSE b

\* Number of characters two texts share at their start.
diff_commonPrefix(t1, t2) ==
    LET n == Min(Len(t1), Len(t2))
        same == {k \in 0..n : \A i \in 1..k : t1[i] = t2[i]}
    IN  CHOOSE k \in same : \A j \in same : j <= k

\* Number of characters two texts share at their end.
diff_commonSuffix(t1, t2) ==
    LET n == Min(Len(t1), Len(t2))
        same == {k \in 0..n :
                    \A i \in 1..k : t1[Len(t1) - k + i] = t2[Len(t2) - k + i]}
    IN  CHOOSE k \in same : \A j \in same : j <= k

\* Length of the longest suffix of t1 that is a prefix of t2.
diff_commonOverlap(t1, t2) ==
    LET n == Min(Len(t1), Len(t2))
        same == {k \in 0..n : \A i \in 1..k : t1[Len(t1) - k + i] = t2[i]}
    IN  CHOOSE k \in same : \A j \in same : j <= k

\* String.prototype.indexOf: the first 0-based index of short in long, or -1.
indexOf(long, short) ==
    LET at == {i \in 0..(Len(long) - Len(short)) :
                  SubSeq(long, i + 1, i + Len(short)) = short}
    IN  IF at = {} THEN -1 ELSE CHOOSE i \in at : \A j \in at : i <= j

\* Segments with empty text dropped and neighbours of one kind joined
\* (diff_cleanupMerge, for the scripts this model builds).
RECURSIVE diff_cleanupMerge(_)
diff_cleanupMerge(diffs) ==
    IF diffs = <<>> THEN <<>>
    ELSE IF Head(diffs).text = <<>> THEN diff_cleanupMerge(Tail(diffs))
    ELSE LET rest == diff_cleanupMerge(Tail(diffs))
         IN  IF rest # <<>> /\ Head(rest).op = Head(diffs).op
             THEN <<Seg(Head(diffs).op, Head(diffs).text \o Head(rest).text)>>
                      \o Tail(rest)
             ELSE <<Head(diffs)>> \o rest

\* The edit script of two texts that share neither a prefix nor a suffix.
diff_compute(text1, text2) ==
    IF text1 = <<>> THEN <<Seg(DIFF_INSERT, text2)>>
    ELSE IF text2 = <<>> THEN <<Seg(DIFF_DELETE, text1)>>
    ELSE LET long == IF Len(text1) > Len(text2) THEN text1 ELSE text2
             short == IF Len(text1) > Len(text2) THEN text2 ELSE text1
             op == IF Len(text1) > Len(text2) THEN DIFF_DELETE ELSE DIFF_INSERT
             i == indexOf(long, short)
         IN  IF i # -1
             THEN <<Seg(op, SubSeq(long, 1, i)),
                    Seg(DIFF_EQUAL, short),
                    Seg(op, SubSeq(long, i + Len(short) + 1, Len(long)))>>
             ELSE <<Seg(DIFF_DELETE, text1), Seg(DIFF_INSERT, text2)>>

\* dmp.diff_main(text1, text2)
diff_main(text1, text2) ==
    IF text1 = text2
    THEN IF text1 = <<>> THEN <<>> ELSE <<Seg(DIFF_EQUAL, text1)>>
    ELSE LET p == diff_commonPrefix(text1, text2)
             r1 == SubSeq(text1, p + 1, Len(text1))
             r2 == SubSeq(text2, p + 1, Len(text2))
             s == diff_commonSuffix(r1, r2)
             m1 == SubSeq(r1, 1, Len(r1) - s)
             m2 == SubSeq(r2, 1, Len(r2) - s)
         IN  diff_cleanupMerge(
                 <<Seg(DIFF_EQUAL, SubSeq(text1, 1, p))>>
                 \o diff_compute(m1, m2)
                 \o <<Seg(DIFF_EQUAL, SubSeq(r1, Len(r1) - s + 1, Len(r1)))>>)

\* An equality no longer than the edits on both of its sides is given up: it
\* becomes a deletion followed by an insertion of the same text.
RECURSIVE EliminateEqualities(_, _)
EliminateEqualities(done, todo) ==
    IF todo = <<>> THEN done
    ELSE LET d == Head(todo)
             before == IF done = <<>> THEN <<>> ELSE done[Len(done)].text
             after == IF Len(todo) < 2 THEN <<>> ELSE todo[2].text
         IN  IF /\ d.op = DIFF_EQUAL
                /\ done # <<>>
                /\ Len(todo) >= 2
                /\ Len(d.text) <= Len(before)
                /\ Len(d.text) <= Len(after)
             THEN EliminateEqualities(
                      done \o <<Seg(DIFF_DELETE, d.text), Seg(DIFF_INSERT, d.text)>>,
                      Tail(todo))
             ELSE EliminateEqualities(Append(done, d), Tail(todo))

\* Deletions moved in front of the insertions of one run of edits, and each
\* kind joined (the reordering part of diff_cleanupMerge).
RECURSIVE TextOf(_, _)
TextOf(diffs, op) ==
    IF diffs = <<>> THEN <<>>
    ELSE (IF Head(diffs).op = op THEN Head(diffs).text ELSE <<>>)
             \o TextOf(Tail(diffs), op)

RECURSIVE MergeEdits(_)
MergeEdits(diffs) ==
    IF diffs = <<>> THEN <<>>
    ELSE IF Head(diffs).op = DIFF_EQUAL
         THEN <<Head(diffs)>> \o MergeEdits(Tail(diffs))
         ELSE LET n == CHOOSE k \in 1..Len(diffs) :
                           /\ \A i \in 1..k : diffs[i].op # DIFF_EQUAL
                           /\ k = Len(diffs) \/ diffs[k + 1].op = DIFF_EQUAL
                  run == SubSeq(diffs, 1, n)
              IN  diff_cleanupMerge(<<Seg(DIFF_DELETE, TextOf(run, DIFF_DELETE)),
                                      Seg(DIFF_INSERT, TextOf(run, DIFF_INSERT))>>)
                      \o MergeEdits(SubSeq(diffs, n + 1, Len(diffs)))

\* A deletion directly followed by an insertion that overlap at their ends
\* get the overlap back as an equality.
RECURSIVE ExtractOverlaps(_)
ExtractOverlaps(diffs) ==
    IF Len(diffs) < 2 THEN diffs
    ELSE IF diffs[1].op = DIFF_DELETE /\ diffs[2].op = DIFF_INSERT
    THEN LET deletion == diffs[1].text
             insertion == diffs[2].text
             o1 == diff_commonOverlap(deletion, insertion)
             o2 == diff_commonOverlap(insertion, deletion)
             rest == ExtractOverlaps(SubSeq(diffs, 3, Len(diffs)))
         IN  IF o1 >= o2
             THEN IF 2 * o1 >= Len(deletion) \/ 2 * o1 >= Len(insertion)
                  THEN <<Seg(DIFF_DELETE, SubSeq(deletion, 1, Len(deletion) - o1)),
                         Seg(DIFF_EQUAL, SubSeq(insertion, 1, o1)),
                         Seg(DIFF_INSERT, SubSeq(insertion, o1 + 1, Len(insertion)))>>
                           \o rest
                  ELSE <<diffs[1], diffs[2]>> \o rest
             ELSE IF 2 * o2 >= Len(deletion) \/ 2 * o2 >= Len(insertion)
                  THEN <<Seg(DIFF_INSERT, SubSeq(insertion, 1, Len(insertion) - o2)),
                         Seg(DIFF_EQUAL, SubSeq(deletion, 1, o2)),
                         Seg(DIFF_DELETE, SubSeq(deletion, o2 + 1, Len(deletion)))>>
                           \o rest
                  ELSE <<diffs[1], diffs[2]>> \o rest
    ELSE <<diffs[1]>> \o ExtractOverlaps(Tail(diffs))

\* dmp.diff_cleanupSemantic(diffs)
diff_cleanupSemantic(diffs) ==
    ExtractOverlaps(MergeEdits(EliminateEqualities(<<>>, diffs)))

\* ----------------------------------------------------- the editor's state

VARIABLES
    doc,              \* the live buffer of the editor
    selection,        \* currentSelectionState: Null or [from, to, text]
    response,         \* generatedResponseState: Null or [airesponse, prompt]
    diffDecorations,  \* diffDecorationState: the added / removed widgets
    highlight,        \* buildSelectionHiglightState: Null or [from, to]
    tooltip,          \* FloatingTooltipState: Null or the FloatingWidget shown
    inflight,         \* the bag of language-model calls that have not settled
    timers,           \* the commits deferred with setTimeout, oldest first
    invokes,          \* how often the assist command has been invoked
    submits,          \* how many language-model requests have been started
    settings,         \* ChatApiManager.settings
    chatClient,       \* ChatApiManager.chatClient: Null or the client created
    lastEvent,        \* history: the handler that ran last
    lastEffects,      \* history: the effects of the transactions it dispatched
    lastDiffs,        \* history: the edit script it rendered, if it rendered
    before,           \* history: the state that handler started in
    lastCommit        \* history: the state a commit that has just run was
                      \* given, and whether the editor took its change

vars == <<doc, selection, response, diffDecorations, highlight, tooltip,
          inflight, timers, invokes, submits, settings, chatClient, lastEvent,
          lastEffects, lastDiffs, before, lastCommit>>

\* The part of an EditorState the fields of this plugin read.
EditorStateOf(sel, resp) == [selection |-> sel, response |-> resp]

\* ------------------------------------------------------------ diff view

Added(pos, text) ==
    [from |-> pos, to |-> pos, type |-> "added", content |-> text, side |-> 1]

\* A 'removed' range that reaches one character past the deleted text.
RemovedBeyond(pos, text) ==
    [from |-> pos, to |-> pos + Len(text) + 1, type |-> "removed",
     content |-> text, side |-> -1]

Removed(pos, text) ==
    [from |-> pos, to |-> pos + Len(text), type |-> "removed", content |-> text,
     side |-> -1]

\* A walk that also advances the position over inserted text.
RECURSIVE WalkDiffsAdvancing(_, _)
WalkDiffsAdvancing(diffs, currentPos) ==
    IF diffs = <<>> THEN <<>>
    ELSE LET d == Head(diffs)
         IN  IF d.op = DIFF_INSERT
             THEN <<Added(currentPos, d.text)>>
                      \o WalkDiffsAdvancing(Tail(diffs), currentPos + Len(d.text))
             ELSE IF d.op = DIFF_DELETE
             THEN <<Removed(currentPos, d.text)>>
                      \o WalkDiffsAdvancing(Tail(diffs), currentPos + Len(d.text))
             ELSE WalkDiffsAdvancing(Tail(diffs), currentPos + Len(d.text))

\* The forEach of generateDiffView: the ranges handed to the builder, in
\* the order they are added, starting at currentPos.
RECURSIVE WalkDiffs(_, _)
WalkDiffs(diffs, currentPos) ==
    IF diffs = <<>> THEN <<>>
    ELSE LET d == Head(diffs)
         IN  IF d.op = DIFF_INSERT
             THEN <<Added(currentPos, d.text)>> \o WalkDiffs(Tail(diffs), currentPos)
             ELSE IF d.op = DIFF_DELETE
             THEN <<Removed(currentPos, d.text)>>
                      \o WalkDiffs(Tail(diffs), currentPos + Len(d.text))
             ELSE WalkDiffs(Tail(diffs), currentPos + Len(d.text))

\* A builder that takes the ranges in any order.
BuilderAcceptsAll(ranges) == TRUE

\* RangeSetBuilder.add throws unless the ranges come sorted by from and side.
BuilderAccepts(ranges) ==
    \A i \in 1..(Len(ranges) - 1) :
        \/ ranges[i].from < ranges[i + 1].from
        \/ ranges[i].from = ranges[i + 1].from /\ ranges[i].side <= ranges[i + 1].side

\* Diffs that replace the whole text, whatever the two texts share.
DiffsOfWhole(state) ==
    LET aiText == IF state.response = Null THEN <<>> ELSE state.response.airesponse
        contextText == IF state.selection = Null THEN <<>> ELSE state.selection.text
    IN  <<Seg(DIFF_DELETE, contextText), Seg(DIFF_INSERT, aiText)>>

\* Diffs computed with the two texts exchanged.
DiffsOfSwapped(state) ==
    LET aiText == IF state.response = Null THEN <<>> ELSE state.response.airesponse
        contextText == IF state.selection = Null THEN <<>> ELSE state.selection.text
    IN  diff_cleanupSemantic(diff_main(aiText, contextText))

\* Diffs of the response against the text it was requested for, not the
\* text of the selection now stored.
DiffsOfRequested(state) ==
    LET aiText == IF state.response = Null THEN <<>> ELSE state.response.airesponse
        contextText == IF state.response = Null THEN <<>>
                       ELSE state.response.prompt.input
    IN  diff_cleanupSemantic(diff_main(contextText, aiText))

\* The diffs generateDiffView computes for a state: the texts, with "" for
\* an absent one, diffed and cleaned up.
DiffsOf(state) ==
    LET aiText == IF state.response = Null THEN <<>> ELSE state.response.airesponse
        contextText == IF state.selection = Null THEN <<>> ELSE state.selection.text
    IN  diff_cleanupSemantic(diff_main(contextText, aiText))

\* The rest of generateDiffView: the builder fed by the walk from currentPos,
\* and Decoration.none when that throws.
BuildDecorations(diffs, currentPos) ==
    LET ranges == WalkDiffs(diffs, currentPos)
    IN  IF BuilderAccepts(ranges) THEN ranges ELSE <<>>

\* A generateDiffView that walks from offset 0 wherever the selection is.
generateDiffViewFromZero(state) == BuildDecorations(DiffsOf(state), 0)

\* generateDiffView(state)
generateDiffView(state) ==
    BuildDecorations(DiffsOf(state),
                     IF state.selection = Null THEN 0 ELSE state.selection.from)

\* ---------------------------------------------------------- transactions

\* A transaction: the effects it carries, the state it starts from and the
\* state it produces (tr.startState, tr.state), as far as the fields go.
SetSelectionInfo(v) == [type |-> "setSelectionInfoEffect", value |-> v]
SetGeneratedResponse(v) == [type |-> "setGeneratedResponseEffect", value |-> v]
CommandEffect == [type |-> "commandEffect", value |-> Null]
DismissTooltipEffect == [type |-> "dismissTooltipEffect", value |-> Null]
AcceptTooltipEffect == [type |-> "acceptTooltipEffect", value |-> Null]

HasEffect(effects, type) == \E i \in 1..Len(effects) : effects[i].type = type

\* effects.find(e => e.is(type)): the first one.
FindEffect(effects, type) ==
    effects[CHOOSE i \in 1..Len(effects) :
                /\ effects[i].type = type
                /\ \A j \in 1..(i - 1) : effects[j].type # type]

\* A currentSelectionState.update that keeps the old selection when the
\* effect carries null.
currentSelectionStateMerging(value, effects) ==
    IF HasEffect(effects, "setSelectionInfoEffect")
    THEN IF FindEffect(effects, "setSelectionInfoEffect").value = Null
         THEN value
         ELSE FindEffect(effects, "setSelectionInfoEffect").value
    ELSE IF HasEffect(effects, "dismissTooltipEffect") THEN Null
    ELSE value

\* A currentSelectionState.update that keeps a SelectionInfo only through
\* the transaction that sets it.
currentSelectionStateDropping(value, effects) ==
    IF HasEffect(effects, "setSelectionInfoEffect")
    THEN FindEffect(effects, "setSelectionInfoEffect").value
    ELSE Null

\* currentSelectionState.update
currentSelectionStateUpdate(value, effects) ==
    IF HasEffect(effects, "setSelectionInfoEffect")
    THEN FindEffect(effects, "setSelectionInfoEffect").value
    ELSE IF HasEffect(effects, "dismissTooltipEffect") THEN Null
    ELSE value

\* A generatedResponseState.update without the dismiss branch: the response
\* outlives the overlay.
generatedResponseStateKept(value, effects) ==
    IF HasEffect(effects, "setGeneratedResponseEffect")
    THEN FindEffect(effects, "setGeneratedResponseEffect").value
    ELSE value

\* generatedResponseState.update
generatedResponseStateUpdate(value, effects) ==
    IF HasEffect(effects, "setGeneratedResponseEffect")
    THEN FindEffect(effects, "setGeneratedResponseEffect").value
    ELSE IF HasEffect(effects, "dismissTooltipEffect") THEN Null
    ELSE value

\* A diffDecorationState.update that renders tr.startState, the state the
\* transaction started from, not the one it produces.
diffDecorationStateFromStart(decorations, effects, startState, state) ==
    IF HasEffect(effects, "setGeneratedResponseEffect")
    THEN generateDiffView(startState)
    ELSE IF HasEffect(effects, "dismissTooltipEffect") THEN <<>>
    ELSE decorations

\* A diffDecorationState.update whose rendering depends on the decorations
\* it replaces: a second rendering over shown decorations shows none.
diffDecorationStateToggling(decorations, effects, startState, state) ==
    IF HasEffect(effects, "setGeneratedResponseEffect")
    THEN IF decorations = <<>> THEN generateDiffView(state) ELSE <<>>
    ELSE IF HasEffect(effects, "dismissTooltipEffect") THEN <<>>
    ELSE decorations

\* A diffDecorationState.update that renders the state of every transaction
\* that leaves a response stored.
diffDecorationStateRerendering(decorations, effects, startState, state) ==
    IF state.response # Null THEN generateDiffView(state)
    ELSE IF HasEffect(effects, "dismissTooltipEffect") THEN <<>>
    ELSE decorations

\* diffDecorationState.update(decorations, tr)
diffDecorationStateUpdate(decorations, effects, startState, state) ==
    IF HasEffect(effects, "setGeneratedResponseEffect")
    THEN generateDiffView(state)
    ELSE IF HasEffect(effects, "dismissTooltipEffect") THEN <<>>
    ELSE decorations

\* buildSelectionHiglightState.update: rebuilt from tr.state every time.
buildSelectionHiglightStateUpdate(state) ==
    IF state.selection # Null
    THEN [from |-> state.selection.from, to |-> state.selection.to]
    ELSE Null

\* renderFloatingWidget: new FloatingWidget(chatApiManager, selectionInfo),
\* after toDOM, drawn at pos, the start of the editor's main selection: the
\* submit button shown, the loader hidden, no Accept / Discard yet.
FloatingWidget(id, pos, selectionInfo) ==
    [id |-> id, pos |-> pos, selectionInfo |-> selectionInfo,
     submitHidden |-> FALSE, loaderHidden |-> TRUE, actionButtons |-> FALSE]

\* FloatingTooltipState.update
FloatingTooltipStateUpdate(decorations, effects, state, main) ==
    IF HasEffect(effects, "commandEffect")
    THEN FloatingWidget(main.id, main.from, state.selection)
    ELSE IF HasEffect(effects, "dismissTooltipEffect") THEN Null
    ELSE decorations

\* What a transaction without commandEffect is given for the widget it does
\* not create.
NoCommand == [id |-> 0, from |-> 0]

\* The fields of the editor state this plugin defines.
Fields ==
    [selection |-> selection, response |-> response,
     diffDecorations |-> diffDecorations, highlight |-> highlight,
     tooltip |-> tooltip]

\* A dispatch whose highlight field reads the selection of tr.startState.
TransactionHighlightingStart(f, effects, main) ==
    LET startState == EditorStateOf(f.selection, f.response)
        state == EditorStateOf(currentSelectionStateUpdate(f.selection, effects),
                               generatedResponseStateUpdate(f.response, effects))
    IN  [selection |-> state.selection,
         response |-> state.response,
         diffDecorations |->
             diffDecorationStateUpdate(f.diffDecorations, effects, startState, state),
         highlight |-> buildSelectionHiglightStateUpdate(startState),
         tooltip |-> FloatingTooltipStateUpdate(f.tooltip, effects, state, main)]

\* view.dispatch({effects}) on the fields f: every field is updated in the one
\* transaction; a field that reads another field reads it in the state the
\* transaction produces. main holds the number of the widget a commandEffect
\* would create and the start of the editor's main selection.
Transaction(f, effects, main) ==
    LET startState == EditorStateOf(f.selection, f.response)
        state == EditorStateOf(currentSelectionStateUpdate(f.selection, effects),
                               generatedResponseStateUpdate(f.response, effects))
    IN  [selection |-> state.selection,
         response |-> state.response,
         diffDecorations |->
             diffDecorationStateUpdate(f.diffDecorations, effects, startState, state),
         highlight |-> buildSelectionHiglightStateUpdate(state),
         tooltip |-> FloatingTooltipStateUpdate(f.tooltip, effects, state, main)]

\* The editor state after a handler has run.
SetFields(f) ==
    /\ selection' = f.selection
    /\ response' = f.response
    /\ diffDecorations' = f.diffDecorations
    /\ highlight' = f.highlight
    /\ tooltip' = f.tooltip

\* ------------------------------------------------------ the chat manager

\* What the user types into the prompt field: nothing, a blank, a task.
Prompts == {<<>>, <<" ">>, <<"p">>}

\* The text callApi returns when the client's invoke rejects
\* ("Failed to generate a response. Please try again later.").
FailedToGenerate == <<"!">>

\* The message callSelection builds: the task, and the selected text as the
\* input unless the request is a cursor request.
finalUserPrompt(isCursor, userPrompt, selectedText) ==
    [task |-> userPrompt, hasInput |-> ~isCursor,
     input |-> IF isCursor THEN <<>> ELSE selectedText]

\* The text callApi returns when there is no client
\* ("Chat client is not available.").
ChatClientNotAvailable == <<"?">>

\* The prompt templates of the settings: the defaults, and an edited pair.
PromptTemplates ==
    {[cursorPrompt |-> "cursor prompt 1", selectionPrompt |-> "selection prompt 1"],
     [cursorPrompt |-> "cursor prompt 2", selectionPrompt |-> "selection prompt 2"]}

\* The settings: what matters to initializeChatClient, the provider and
\* whether an API key is set, and the prompt templates.
Settings ==
    {[provider |-> provider, apiKey |-> apiKey,
      cursorPrompt |-> templates.cursorPrompt,
      selectionPrompt |-> templates.selectionPrompt] :
        provider \in {"openai", "ollama"}, apiKey \in BOOLEAN,
        templates \in PromptTemplates}

DEFAULT_SETTINGS ==
    [provider |-> "ollama", apiKey |-> FALSE,
     cursorPrompt |-> "cursor prompt 1", selectionPrompt |-> "selection prompt 1"]

\* initializeChatClient(settings): the client created, or Null (null) when
\* the provider lacks what it needs.
initializeChatClient(s) ==
    IF s.provider = "openai" /\ ~s.apiKey THEN Null
    ELSE [createdFrom |-> [provider |-> s.provider, apiKey |-> s.apiKey]]

\* A callSelection that takes a request for a cursor request only when no
\* text at all is selected.
callSelectionByLength(widget, userPrompt, selectedText) ==
    LET isCursor == selectedText = <<>>
    IN  [widget |-> widget,
         systemPrompt |-> IF isCursor THEN settings.cursorPrompt
                          ELSE settings.selectionPrompt,
         userRequest |-> finalUserPrompt(isCursor, userPrompt, selectedText)]

\* callSelection(userPrompt, selectedText): the request handed to
\* handleEditorUpdate, issued by the widget `widget`.
callSelection(widget, userPrompt, selectedText) ==
    LET isCursor == TrimIsEmpty(selectedText)
    IN  [widget |-> widget,
         systemPrompt |-> IF isCursor THEN settings.cursorPrompt
                          ELSE settings.selectionPrompt,
         userRequest |-> finalUserPrompt(isCursor, userPrompt, selectedText)]

\* A callApi without the check for a client: invoking null throws within the
\* try, which is the failure of a call.
callApiUnchecked(client, settled) ==
    IF client = Null THEN FailedToGenerate
    ELSE IF settled.ok THEN settled.content ELSE FailedToGenerate

\* callApi: without a client the text that says so, returned at once;
\* otherwise, once the client has settled, the content it resolved with, or
\* the failure text when it rejected (the error is caught, not rethrown).
callApi(client, settled) ==
    IF client = Null THEN ChatClientNotAvailable
    ELSE IF settled.ok THEN settled.content ELSE FailedToGenerate

\* handleEditorUpdate after the await: the fields once the response has been
\* dispatched to the active editor, if there is a response and an editor.
handleEditorUpdate(f, request, apiResponse, markdownView) ==
    IF apiResponse = <<>> THEN f
    ELSE IF ~markdownView THEN f
    ELSE Transaction(f,
             <<SetGeneratedResponse([airesponse |-> apiResponse,
                                     prompt |-> request.userRequest])>>, NoCommand)

\* toggleLoading(isLoading) of a widget.
toggleLoading(w, isLoading) ==
    [w EXCEPT !.submitHidden = isLoading, !.loaderHidden = ~isLoading]

\* showActionButtons of a widget: Accept and Discard are created.
showActionButtons(w) ==
    [w EXCEPT !.submitHidden = TRUE, !.actionButtons = TRUE]

\* A promise chain that offers Accept and Discard only over a stored
\* response, and gives the submit button back otherwise.
PromiseSettledWithResponse(f, widget) ==
    IF f.tooltip # Null /\ f.tooltip.id = widget
    THEN IF f.response # Null
         THEN [f EXCEPT !.tooltip = toggleLoading(showActionButtons(f.tooltip), FALSE)]
         ELSE [f EXCEPT !.tooltip = toggleLoading(f.tooltip, FALSE)]
    ELSE f

\* A promise chain without its finally: the loader is left as it is.
PromiseSettledWithoutFinally(f, widget) ==
    IF f.tooltip # Null /\ f.tooltip.id = widget
    THEN [f EXCEPT !.tooltip = showActionButtons(f.tooltip)]
    ELSE f

\* The then / finally of submitAction's promise chain, run once callSelection
\* has resolved (handleEditorUpdate never rejects). A widget that has been
\* removed from the editor only changes its detached DOM.
PromiseSettled(f, widget) ==
    IF f.tooltip # Null /\ f.tooltip.id = widget
    THEN [f EXCEPT !.tooltip = toggleLoading(showActionButtons(f.tooltip), FALSE)]
    ELSE f

\* ----------------------------------------------------------- the commit

\* applyDiffPlugin.update: one setTimeout per accept effect, each holding the
\* state the update produced.
applyDiffPluginUpdate(pending, effects, state) ==
    IF HasEffect(effects, "acceptTooltipEffect")
    THEN Append(pending, state)
    ELSE pending

\* A change that, without a SelectionInfo, inserts after the first character.
ChangeOfAfterFirst(state) ==
    [from |-> IF state.selection = Null THEN 1 ELSE state.selection.from,
     to |-> IF state.selection = Null THEN 1 ELSE state.selection.to,
     insert |-> IF state.response = Null THEN <<>> ELSE state.response.airesponse]

\* The change dispatchAIChanges(state, view) asks the view for.
ChangeOf(state) ==
    [from |-> IF state.selection = Null THEN 0 ELSE state.selection.from,
     to |-> IF state.selection = Null THEN 0 ELSE state.selection.to,
     insert |-> IF state.response = Null THEN <<>> ELSE state.response.airesponse]

\* The editor refuses a change whose range is not within the buffer
\* (RangeError, caught by dispatchAIChanges).
ValidChange(d, change) ==
    0 <= change.from /\ change.from <= change.to /\ change.to <= Len(d)

ApplyChange(d, change) ==
    SubSeq(d, 1, change.from) \o change.insert \o SubSeq(d, change.to + 1, Len(d))

\* A dispatchAIChanges that does nothing without a selection.
dispatchAIChangesGuarded(d, state) ==
    IF state.selection # Null /\ ValidChange(d, ChangeOf(state))
    THEN ApplyChange(d, ChangeOf(state))
    ELSE d

\* dispatchAIChanges(state, view) on the buffer d.
dispatchAIChanges(d, state) ==
    IF ValidChange(d, ChangeOf(state)) THEN ApplyChange(d, ChangeOf(state)) ELSE d

\* ---------------------------------------------------------------- actions

\* The state a handler starts in, as the history keeps it.
Snapshot ==
    [doc |-> doc, timers |-> timers, inflight |-> inflight, fields |-> Fields,
     settings |-> settings, chatClient |-> chatClient, lastEvent |-> lastEvent,
     lastEffects |-> lastEffects]

\* The history a handler named `name` leaves, having dispatched `effects`
\* and rendered nothing.
Ran(name, effects) ==
    /\ lastEvent' = name
    /\ lastEffects' = effects
    /\ lastDiffs' = <<>>
    /\ before' = Snapshot

\* The plugin loaded with settings s over a note whose buffer is d.
Loaded(d, s) ==
    /\ doc = d
    /\ selection = Null
    /\ response = Null
    /\ diffDecorations = <<>>
    /\ highlight = Null
    /\ tooltip = Null
    /\ inflight = EmptyBag
    /\ timers = <<>>
    /\ invokes = 0
    /\ submits = 0
    /\ settings = s
    /\ chatClient = initializeChatClient(s)
    /\ lastEvent = "init"
    /\ lastEffects = <<>>
    /\ lastDiffs = <<>>
    /\ before = Snapshot
    /\ lastCommit = Null

Init == \E d \in TextsUpTo(MaxDocLen) : Loaded(d, DEFAULT_SETTINGS)

\* A command callback that stores a SelectionInfo for a bare cursor too.
showCursorTooltipAlways(from, to) ==
    LET effects ==
            <<SetSelectionInfo([from |-> from, to |-> to,
                                text |-> sliceString(doc, from, to)]),
              CommandEffect>>
    IN  /\ SetFields(Transaction(Fields, effects,
                                [id |-> invokes + 1, from |-> from]))
        /\ Ran("ShowCursorTooltip", effects)

\* The callback of the "show-cursor-tooltip" command, the main selection of
\* the editor being [from, to).
showCursorTooltip(from, to) ==
    LET effects ==
            <<IF from # to
              THEN SetSelectionInfo([from |-> from, to |-> to,
                                     text |-> sliceString(doc, from, to)])
              ELSE SetSelectionInfo(Null),
              CommandEffect>>
    IN  /\ SetFields(Transaction(Fields, effects,
                                [id |-> invokes + 1, from |-> from]))
        /\ Ran("ShowCursorTooltip", effects)

ShowCursorTooltip ==
    /\ invokes < MaxInvokes
    /\ \E from \in 0..Len(doc), to \in 0..Len(doc) :
          from <= to /\ showCursorTooltip(from, to)
    /\ invokes' = invokes + 1
    /\ lastCommit' = Null
    /\ UNCHANGED <<doc, inflight, timers, submits, settings, chatClient>>

\* The effects handleEditorUpdate dispatches for apiResponse.
Dispatched(request, apiResponse, markdownView) ==
    IF apiResponse # <<>> /\ markdownView
    THEN <<SetGeneratedResponse([airesponse |-> apiResponse,
                                 prompt |-> request.userRequest])>>
    ELSE <<>>

\* The diffs a handler that left the fields f rendered, having dispatched
\* effects.
Rendered(effects, f) ==
    IF HasEffect(effects, "setGeneratedResponseEffect")
    THEN DiffsOf(EditorStateOf(f.selection, f.response))
    ELSE <<>>

\* A submitAction without the check of the prompt: whatever is in the text
\* field is sent to the client.
submitActionUnchecked(name, userPrompt) ==
    LET selectedText == IF tooltip.selectionInfo = Null THEN <<>>
                        ELSE tooltip.selectionInfo.text
        request == callSelection(tooltip.id, userPrompt, selectedText)
        loading == [Fields EXCEPT !.tooltip = toggleLoading(tooltip, TRUE)]
    IN  /\ submits < MaxSubmits
        /\ submits' = submits + 1
        /\ SetFields(loading)
        /\ inflight' = inflight (+) SetToBag({request})
        /\ Ran(name, <<>>)

\* submitAction of the widget shown, with userPrompt in its text field. With
\* no client, callApi returns at once and the promise chain runs before any
\* other event is handled.
submitAction(name, userPrompt) ==
    LET selectedText == IF tooltip.selectionInfo = Null THEN <<>>
                        ELSE tooltip.selectionInfo.text
        request == callSelection(tooltip.id, userPrompt, selectedText)
        loading == [Fields EXCEPT !.tooltip = toggleLoading(tooltip, TRUE)]
    IN  IF TrimIsEmpty(userPrompt)
        THEN /\ UNCHANGED <<selection, response, diffDecorations, highlight,
                            tooltip, inflight, submits>>
             /\ Ran(name, <<>>)
        ELSE IF chatClient = Null
        THEN \E markdownView \in BOOLEAN :
                LET apiResponse == callApi(chatClient, Null)
                    f == PromiseSettled(
                             handleEditorUpdate(loading, request, apiResponse,
                                                markdownView),
                             tooltip.id)
                IN  /\ SetFields(f)
                    /\ lastEvent' = name
                    /\ lastEffects' = Dispatched(request, apiResponse, markdownView)
                    /\ lastDiffs' = Rendered(lastEffects', f)
                    /\ before' = Snapshot
                    /\ UNCHANGED <<inflight, submits>>
        ELSE /\ submits < MaxSubmits
             /\ submits' = submits + 1
             /\ SetFields(loading)
             /\ inflight' = inflight (+) SetToBag({request})
             /\ Ran(name, <<>>)

\* A click on the submit button, which is there unless it is hidden.
SubmitClick ==
    /\ tooltip # Null
    /\ ~tooltip.submitHidden
    /\ \E userPrompt \in Prompts : submitAction("SubmitClick", userPrompt)
    /\ lastCommit' = Null
    /\ UNCHANGED <<doc, timers, invokes, settings, chatClient>>

\* Enter in the prompt field: the keymap runs submitAction whatever is shown.
SubmitEnter ==
    /\ tooltip # Null
    /\ \E userPrompt \in Prompts : submitAction("SubmitEnter", userPrompt)
    /\ lastCommit' = Null
    /\ UNCHANGED <<doc, timers, invokes, settings, chatClient>>

\* The client's invoke for request has settled: callApi, which found a
\* client when it was called, returns, then handleEditorUpdate dispatches,
\* then the widget's promise chain runs.
ClientSettles(name, request, settled, markdownView) ==
    LET apiResponse == callApi(chatClient, settled)
        f == PromiseSettled(
                 handleEditorUpdate(Fields, request, apiResponse, markdownView),
                 request.widget)
    IN  /\ SetFields(f)
        /\ inflight' = inflight (-) SetToBag({request})
        /\ lastEvent' = name
        /\ lastEffects' = Dispatched(request, apiResponse, markdownView)
        /\ lastDiffs' = Rendered(lastEffects', f)
        /\ before' = Snapshot
        /\ lastCommit' = Null
        /\ UNCHANGED <<doc, timers, invokes, submits, settings, chatClient>>

ClientResolves ==
    \E request \in BagToSet(inflight), content \in TextsUpTo(MaxContentLen),
       markdownView \in BOOLEAN :
        ClientSettles("ClientResolves", request,
                      [ok |-> TRUE, content |-> content], markdownView)

\* A call that, having failed, is made again.
ClientRejectsRetrying ==
    \E request \in BagToSet(inflight) :
        /\ UNCHANGED <<selection, response, diffDecorations, highlight, tooltip,
                       inflight>>
        /\ Ran("ClientRejects", <<>>)
        /\ lastCommit' = Null
        /\ UNCHANGED <<doc, timers, invokes, submits, settings, chatClient>>

ClientRejects ==
    \E request \in BagToSet(inflight), markdownView \in BOOLEAN :
        ClientSettles("ClientRejects", request,
                      [ok |-> FALSE, content |-> <<>>], markdownView)

\* dismissTooltip of the widget shown.
dismissTooltip(f) == Transaction(f, <<DismissTooltipEffect>>, NoCommand)

\* An acceptAction that dismisses before it dispatches the accept effect:
\* the apply-diff plugin sees the cleared state.
acceptActionDismissingFirst ==
    LET dismissed == dismissTooltip(Fields)
        accepted == Transaction(dismissed, <<AcceptTooltipEffect>>, NoCommand)
    IN  /\ timers' = applyDiffPluginUpdate(timers, <<AcceptTooltipEffect>>,
                         EditorStateOf(accepted.selection, accepted.response))
        /\ SetFields(accepted)
        /\ UNCHANGED doc
        /\ lastEffects' = <<AcceptTooltipEffect, DismissTooltipEffect>>

\* acceptAction: the accept transaction, whose update the apply-diff plugin
\* sees, and then dismissTooltip.
acceptAction ==
    LET accepted == Transaction(Fields, <<AcceptTooltipEffect>>, NoCommand)
    IN  /\ timers' = applyDiffPluginUpdate(timers, <<AcceptTooltipEffect>>,
                         EditorStateOf(accepted.selection, accepted.response))
        /\ SetFields(dismissTooltip(accepted))
        /\ UNCHANGED doc
        /\ lastEffects' = <<AcceptTooltipEffect, DismissTooltipEffect>>

\* What a handler of the widget that renders nothing leaves besides.
Handled(name) ==
    /\ lastEvent' = name
    /\ lastDiffs' = <<>>
    /\ before' = Snapshot
    /\ lastCommit' = Null
    /\ UNCHANGED <<inflight, invokes, submits, settings, chatClient>>

\* A click on the Accept button.
Accept ==
    /\ tooltip # Null
    /\ tooltip.actionButtons
    /\ acceptAction
    /\ Handled("Accept")

\* A discardAction that dispatched the accept effect before it dismissed, as
\* acceptAction does.
discardActionApplying ==
    /\ timers' = applyDiffPluginUpdate(timers, <<AcceptTooltipEffect>>,
                     EditorStateOf(selection, response))
    /\ SetFields(dismissTooltip(Fields))
    /\ UNCHANGED doc
    /\ lastEffects' = <<AcceptTooltipEffect, DismissTooltipEffect>>

\* discardAction
discardAction ==
    /\ SetFields(dismissTooltip(Fields))
    /\ UNCHANGED <<doc, timers>>
    /\ lastEffects' = <<DismissTooltipEffect>>

\* A click on the Discard button.
Discard ==
    /\ tooltip # Null
    /\ tooltip.actionButtons
    /\ discardAction
    /\ Handled("Discard")

\* onEscape of the widget shown, for the Escape key.
onEscape ==
    /\ SetFields(dismissTooltip(Fields))
    /\ UNCHANGED <<doc, timers>>
    /\ lastEffects' = <<DismissTooltipEffect>>

Escape ==
    /\ tooltip # Null
    /\ onEscape
    /\ Handled("Escape")

\* onClickOutside of the widget shown, for a mouse press outside its DOM.
onClickOutside ==
    /\ SetFields(dismissTooltip(Fields))
    /\ UNCHANGED <<doc, timers>>
    /\ lastEffects' = <<DismissTooltipEffect>>

ClickOutside ==
    /\ tooltip # Null
    /\ onClickOutside
    /\ Handled("ClickOutside")

\* The oldest timer of the apply-diff plugin fires: dispatchAIChanges runs
\* with the state the timer holds. A change the editor takes is one
\* transaction, which carries none of the plugin's effects.
Commit ==
    /\ timers # <<>>
    /\ doc' = dispatchAIChanges(doc, Head(timers))
    /\ SetFields(IF ValidChange(doc, ChangeOf(Head(timers)))
                 THEN Transaction(Fields, <<>>, NoCommand)
                 ELSE Fields)
    /\ timers' = Tail(timers)
    /\ Ran("Commit", <<>>)
    /\ lastCommit' = [state |-> Head(timers),
                      applied |-> ValidChange(doc, ChangeOf(Head(timers)))]
    /\ UNCHANGED <<inflight, invokes, submits, settings, chatClient>>

\* The buffer is edited from outside the plugin: one character is deleted.
\* The transaction carries none of the plugin's effects.
EditBuffer ==
    /\ \E p \in 1..Len(doc) :
          doc' = ApplyChange(doc, [from |-> p - 1, to |-> p, insert |-> <<>>])
    /\ SetFields(Transaction(Fields, <<>>, NoCommand))
    /\ Ran("EditBuffer", <<>>)
    /\ lastCommit' = Null
    /\ UNCHANGED <<inflight, timers, invokes, submits, settings, chatClient>>

Next ==
    \/ ShowCursorTooltip
    \/ SubmitClick
    \/ SubmitEnter
    \/ ClientResolves
    \/ ClientRejects
    \/ Accept
    \/ Discard
    \/ Escape
    \/ ClickOutside
    \/ Commit
    \/ EditBuffer

Spec == Init /\ [][Next]_vars

\* The timers the editor has set do fire, and every call of the language
\* model settles.
FairSpec ==
    /\ Spec
    /\ WF_vars(Commit)
    /\ WF_vars(ClientResolves \/ ClientRejects)

\* ------------------------------------------------------------- settings

\* An updateSettings that stores whatever initializeChatClient returns, null
\* included.
updateSettingsClearing(s) ==
    /\ settings' = s
    /\ chatClient' = initializeChatClient(s)

\* updateSettings(settings): the settings are stored; the client is replaced
\* only by a client that could be created.
updateSettings(s) ==
    /\ settings' = s
    /\ chatClient' = IF initializeChatClient(s) = Null THEN chatClient
                     ELSE initializeChatClient(s)

\* The settings tab saves settings.
UpdateSettings ==
    /\ \E s \in Settings : updateSettings(s)
    /\ Ran("UpdateSettings", <<>>)
    /\ lastCommit' = Null
    /\ UNCHANGED <<doc, selection, response, diffDecorations, highlight, tooltip,
                   inflight, timers, invokes, submits>>

\* The plugin loaded with any settings, with or without a client.
ManagerInit == \E d \in TextsUpTo(MaxDocLen), s \in Settings : Loaded(d, s)

\* The first invocation of the assist command.
FirstInvoke == invokes = 0 /\ ShowCursorTooltip

\* One session with the settings changing under it.
ManagerNext ==
    \/ UpdateSettings
    \/ FirstInvoke
    \/ SubmitClick
    \/ ClientResolves
    \/ ClientRejects
    \/ Discard

ManagerSpec == ManagerInit /\ [][ManagerNext]_vars

\* ------------------------------------------------- sessions, longer notes

\* Longest buffer of the sessions over notes with more than one selection.
MaxNoteLen == 3

NoteInit == \E d \in TextsUpTo(MaxNoteLen) : Loaded(d, DEFAULT_SETTINGS)

\* The one request of a session, submitted by a click.
FirstSubmit == submits = 0 /\ SubmitClick

\* Invocations, one request, its response, Accept, the deferred commit and
\* edits of the buffer, over a note of up to MaxNoteLen characters.
NoteNext ==
    \/ ShowCursorTooltip
    \/ FirstSubmit
    \/ ClientResolves
    \/ Accept
    \/ Commit
    \/ EditBuffer

NoteSpec == NoteInit /\ [][NoteNext]_vars

\* -------------------------------------------------- rendering, at length

\* Longest buffer, and longest text of the language model, of the sessions
\* that look at the rendering of longer texts.
MaxRenderLen == 3

RenderInit == \E d \in TextsUpTo(MaxRenderLen) : Loaded(d, DEFAULT_SETTINGS)

\* The client resolves with a text of up to MaxRenderLen characters, a
\* markdown view being active.
RenderResolves ==
    \E request \in BagToSet(inflight), content \in TextsUpTo(MaxRenderLen) :
        ClientSettles("ClientResolves", request,
                      [ok |-> TRUE, content |-> content], TRUE)

\* The first invocation of the assist command.
RenderInvoke == FirstInvoke

\* The first request, submitted by a click.
RenderSubmit == FirstSubmit

\* One session: an invocation, a submit, the response, Accept and the commit.
RenderNext ==
    \/ RenderInvoke
    \/ RenderSubmit
    \/ RenderResolves
    \/ Accept
    \/ Commit

RenderSpec == RenderInit /\ [][RenderNext]_vars

\* ------------------------------------------- rendering, whatever the diff

\* Most segments of a script the diff library is taken to return.
MaxScriptLen == 2

\* Segments of one character.
Segments ==
    {Seg(op, text) : op \in {DIFF_DELETE, DIFF_INSERT, DIFF_EQUAL},
                     text \in TextsOfLen(1)}

RECURSIVE ScriptsOfLen(_)
ScriptsOfLen(n) ==
    IF n = 0 THEN {<<>>}
    ELSE {Append(script, seg) : script \in ScriptsOfLen(n - 1), seg \in Segments}

\* The scripts of up to MaxScriptLen segments, well formed or not.
Scripts == UNION {ScriptsOfLen(n) : n \in 0..MaxScriptLen}

\* The client resolves with a text, a markdown view being active, and the
\* diff library hands generateDiffView the script `script` for it: the
\* response-set transaction with the decorations built from that script.
WalkResolves ==
    \E request \in BagToSet(inflight), content \in TextsOfLen(1),
       script \in Scripts :
        LET apiResponse == callApi(chatClient, [ok |-> TRUE, content |-> content])
            set == handleEditorUpdate(Fields, request, apiResponse, TRUE)
            built == [set EXCEPT !.diffDecorations =
                         BuildDecorations(script,
                             IF set.selection = Null THEN 0
                             ELSE set.selection.from)]
        IN  /\ SetFields(PromiseSettled(built, request.widget))
            /\ inflight' = inflight (-) SetToBag({request})
            /\ lastEvent' = "ClientResolves"
            /\ lastEffects' = Dispatched(request, apiResponse, TRUE)
            /\ lastDiffs' = script
            /\ before' = Snapshot
            /\ lastCommit' = Null
            /\ UNCHANGED <<doc, timers, invokes, submits, settings, chatClient>>

WalkNext ==
    \/ RenderInvoke
    \/ RenderSubmit
    \/ WalkResolves

WalkSpec == Init /\ [][WalkNext]_vars

\* ----------------------------------------------------------------- claims

DismissEvents == {"Discard", "Escape", "ClickOutside"}

SettleEvents == {"ClientResolves", "ClientRejects"}

\* The handler that ran last dispatched a response-set transaction.
ResponseSet ==
    /\ lastEvent \in SettleEvents
    /\ HasEffect(lastEffects, "setGeneratedResponseEffect")

\* The widget w offers Accept and Discard.
AwaitingDecision(w) == w # Null /\ w.actionButtons

\* C1: every Accept issued while a SelectionInfo s and a GeneratedResponse r
\* are present results in exactly one buffer mutation, which replaces
\* [s.from, s.to) by r's text in one transaction: the Accept sets one commit,
\* and that commit, run next with s and r, is taken by the editor and leaves
\* the buffer with that range replaced.
C1_AcceptReplacesSelection ==
    /\ (/\ lastEvent = "Accept"
        /\ before.fields.selection # Null
        /\ before.fields.response # Null)
          => timers = Append(before.timers,
                             EditorStateOf(before.fields.selection,
                                           before.fields.response))
    /\ (/\ lastEvent = "Commit"
        /\ before.lastEvent = "Accept"
        /\ lastCommit.state.selection # Null
        /\ lastCommit.state.response # Null)
          => /\ lastCommit.applied
             /\ doc = ApplyChange(before.doc,
                          [from |-> lastCommit.state.selection.from,
                           to |-> lastCommit.state.selection.to,
                           insert |-> lastCommit.state.response.airesponse])

\* C2: after Accept in AwaitingDecision the system reaches a state where the
\* overlay is Idle, SelectionInfo and GeneratedResponse are absent, the
\* AnnotationSet is empty and the buffer has been changed by the one commit:
\* the state in which the commit of an Accept has run, nothing having
\* happened in between, is such a state.
C2_AcceptEndsCommitted ==
    (lastEvent = "Commit" /\ before.lastEvent = "Accept")
        => /\ tooltip = Null
           /\ selection = Null
           /\ response = Null
           /\ diffDecorations = <<>>
           /\ lastCommit.applied

\* C3: Discard, Escape and a click outside never mutate the buffer: the
\* buffer after the handler equals the buffer before it, and the handler
\* leaves no work behind that could (it sets no timer, starts no request).
C3_DismissLeavesBuffer ==
    lastEvent \in DismissEvents
        => /\ doc = before.doc
           /\ timers = before.timers
           /\ inflight = before.inflight

\* C3, witness: Discard has been clicked on a rendered diff.
C3_DiscardedDiff ==
    /\ lastEvent = "Discard"
    /\ before.fields.selection # Null
    /\ before.fields.response # Null
    /\ before.fields.diffDecorations # <<>>
    /\ doc # <<>>

\* C4: after a dismiss event SelectionInfo and GeneratedResponse are absent,
\* the AnnotationSet is empty, the selection highlight is removed and the
\* overlay is Idle.
C4_DismissClears ==
    lastEvent \in DismissEvents
        => /\ selection = Null
           /\ response = Null
           /\ diffDecorations = <<>>
           /\ highlight = Null
           /\ tooltip = Null

\* C4, witness: a click outside has dismissed an overlay that showed a diff
\* over a highlighted selection.
C4_DismissedAwaiting ==
    /\ lastEvent = "ClickOutside"
    /\ AwaitingDecision(before.fields.tooltip)
    /\ before.fields.selection # Null
    /\ before.fields.response # Null
    /\ before.fields.diffDecorations # <<>>
    /\ before.fields.highlight # Null

\* C5: when the language-model call of a submit rejects, GeneratedResponse
\* remains absent, the AnnotationSet remains empty, and a widget that did not
\* offer Accept / Discard does not offer them afterwards.
C5_FailureLeavesNoResponse ==
    lastEvent = "ClientRejects"
        => /\ before.fields.response = Null => response = Null
           /\ before.fields.diffDecorations = <<>> => diffDecorations = <<>>
           /\ ~AwaitingDecision(before.fields.tooltip)
                 => ~AwaitingDecision(tooltip)

\* C6: the diff rendering is empty whenever SelectionInfo or GeneratedResponse
\* is absent: the AnnotationSet a response-set transaction leaves is empty
\* when the state it produces has no SelectionInfo (a cursor-only invocation)
\* or no GeneratedResponse.
C6_AbsentInputRendersNothing ==
    (ResponseSet /\ (selection = Null \/ response = Null))
        => diffDecorations = <<>>

\* C7: commit is never invoked unless a SelectionInfo and a GeneratedResponse
\* are both present: neither is absent in a state where Accept can be
\* clicked, nor in the state a deferred commit holds.
C7_CommitOnlyWithBoth ==
    /\ AwaitingDecision(tooltip) => selection # Null /\ response # Null
    /\ \A i \in 1..Len(timers) :
          timers[i].selection # Null /\ timers[i].response # Null

\* C8: at most one language-model request is in flight per overlay widget:
\* no two calls that have not settled were issued by the same widget.
C8_OneRequestPerWidget ==
    \A p \in BagToSet(inflight) :
        /\ CopiesIn(p, inflight) = 1
        /\ \A q \in BagToSet(inflight) : q.widget = p.widget => q = p

\* C9: the result of a request whose overlay was dismissed while it was in
\* flight is discarded: when a call settles with no overlay shown,
\* GeneratedResponse stays absent and the AnnotationSet stays empty.
C9_AbandonedResultDiscarded ==
    (lastEvent \in SettleEvents /\ before.fields.tooltip = Null)
        => /\ before.fields.response = Null => response = Null
           /\ before.fields.diffDecorations = <<>> => diffDecorations = <<>>

\* C10: in the state a response-set transaction produces, the AnnotationSet
\* is the rendering of that state, its new GeneratedResponse and its
\* SelectionInfo.
C10_RenderedFromNewState ==
    ResponseSet
        => /\ response # Null
           /\ diffDecorations = generateDiffView(EditorStateOf(selection, response))

\* C10, witness: a response has replaced an earlier one, and the rendering of
\* the earlier one over the same selection would be a different one.
C10_ResponseReplaced ==
    /\ ResponseSet
    /\ before.fields.response # Null
    /\ before.fields.response # response
    /\ selection # Null
    /\ diffDecorations
         # generateDiffView(EditorStateOf(selection, before.fields.response))

\* C11: the AnnotationSet is a pure view of the store, rebuilt on every
\* change of SelectionInfo or GeneratedResponse: whenever a response is
\* stored, the annotations are the rendering of the current SelectionInfo and
\* the current GeneratedResponse.
C11_AnnotationsFollowStore ==
    response # Null
        => diffDecorations = generateDiffView(EditorStateOf(selection, response))

\* C12: if the response text equals the selection text, the AnnotationSet
\* computed for them has no annotation.
C12_EqualTextsRenderNothing ==
    (ResponseSet /\ selection # Null /\ response.airesponse = selection.text)
        => diffDecorations = <<>>

\* C12, witness: a response that repeats a selection of several characters.
C12_ResponseRepeatsSelection ==
    /\ ResponseSet
    /\ selection # Null
    /\ response.airesponse = selection.text
    /\ Len(selection.text) >= 2

\* The length of the text the segments before the i-th take from the
\* original: of its equal and delete segments.
RECURSIVE OriginalBefore(_, _)
OriginalBefore(diffs, i) ==
    IF i <= 1 THEN 0
    ELSE OriginalBefore(diffs, i - 1)
           + (IF diffs[i - 1].op = DIFF_INSERT THEN 0 ELSE Len(diffs[i - 1].text))

\* The indices of the segments of diffs that are not equal segments, in order.
Edits(diffs) ==
    SelectSeq([i \in 1..Len(diffs) |-> i], LAMBDA i : diffs[i].op # DIFF_EQUAL)

\* The offset the rendering of the current state starts from.
StartOffset == IF selection = Null THEN 0 ELSE selection.from

\* C13: the annotations are those of a walk over the diff segments from
\* selection.from: each insert segment gives a zero-width 'added' marker and
\* each delete segment a 'removed' marker over its length, in the order of
\* the segments, at selection.from plus the lengths of the equal and delete
\* segments before it; equal segments give nothing.
C13_OffsetsFollowWalk ==
    ResponseSet
        => /\ Len(diffDecorations) = Len(Edits(lastDiffs))
           /\ \A k \in 1..Len(diffDecorations) :
                LET i == Edits(lastDiffs)[k]
                    d == lastDiffs[i]
                    a == diffDecorations[k]
                IN  /\ a.from = StartOffset + OriginalBefore(lastDiffs, i)
                    /\ a.content = d.text
                    /\ d.op = DIFF_INSERT => a.type = "added" /\ a.to = a.from
                    /\ d.op = DIFF_DELETE
                          => a.type = "removed" /\ a.to = a.from + Len(d.text)

\* C13, witness: a rendering of equal, delete and insert segments over a
\* selection that does not start the buffer.
C13_AllKindsWalked ==
    /\ ResponseSet
    /\ selection # Null
    /\ selection.from > 0
    /\ \A op \in {DIFF_EQUAL, DIFF_DELETE, DIFF_INSERT} :
          \E i \in 1..Len(lastDiffs) : lastDiffs[i].op = op
    /\ lastDiffs[1].op = DIFF_EQUAL

InsertedAt(t, k, x) == SubSeq(t, 1, k) \o x \o SubSeq(t, k + 1, Len(t))

\* C15: when the response is the selection text with one substring inserted,
\* there is exactly one annotation, an 'added' marker, and it lies at
\* selection.from plus the length of unchanged text before the insertion:
\* the text before the marker, the marker's text and the text after the
\* marker make up the response.
C15_OneMarkerForInsertion ==
    (/\ ResponseSet
     /\ selection # Null
     /\ \E k \in 0..Len(selection.text), n \in 1..Len(response.airesponse) :
           /\ k + n <= Len(response.airesponse)
           /\ response.airesponse
                = InsertedAt(selection.text, k,
                             SubSeq(response.airesponse, k + 1, k + n)))
        => /\ Len(diffDecorations) = 1
           /\ diffDecorations[1].type = "added"
           /\ diffDecorations[1].from - selection.from \in 0..Len(selection.text)
           /\ response.airesponse
                = InsertedAt(selection.text,
                             diffDecorations[1].from - selection.from,
                             diffDecorations[1].content)

\* C15, witness: text inserted inside a selection that does not start the
\* buffer, after a character of it and before another.
C15_InsertedInside ==
    /\ ResponseSet
    /\ selection # Null
    /\ selection.from > 0
    /\ Len(selection.text) = 2
    /\ selection.text[1] # selection.text[2]
    /\ response.airesponse
         = InsertedAt(selection.text, 1, <<selection.text[1]>>)
    /\ Len(diffDecorations) = 1

\* C16: for a cursor-only invocation with a non-empty response the diff is
\* one insert segment, rendered as exactly one 'added' annotation, and Accept
\* replaces a zero-length range of the buffer by the response text.
C16_CursorResponseInserted ==
    /\ (ResponseSet /\ tooltip # Null /\ tooltip.selectionInfo = Null
                    /\ selection = Null)
          => /\ lastDiffs = <<Seg(DIFF_INSERT, response.airesponse)>>
             /\ Len(diffDecorations) = 1
             /\ diffDecorations[1].type = "added"
             /\ diffDecorations[1].content = response.airesponse
    /\ (/\ lastEvent = "Commit"
        /\ lastCommit.state.selection = Null
        /\ lastCommit.state.response # Null)
          => /\ lastCommit.applied
             /\ \E p \in 0..Len(before.doc) :
                   doc = InsertedAt(before.doc, p,
                                    lastCommit.state.response.airesponse)

\* C16, witness: the commit of a cursor-only session has put a response of
\* several characters into a buffer that was not empty.
C16_CursorCommitted ==
    /\ lastEvent = "Commit"
    /\ lastCommit.state.selection = Null
    /\ lastCommit.state.response # Null
    /\ Len(lastCommit.state.response.airesponse) >= 2
    /\ before.doc # <<>>
    /\ Len(doc) = Len(before.doc) + Len(lastCommit.state.response.airesponse)

\* Ranges sorted by start offset and, at one offset, by side.
SortedRanges(ranges) ==
    \A i \in 1..Len(ranges), j \in 1..Len(ranges) :
        i < j => \/ ranges[i].from < ranges[j].from
                 \/ /\ ranges[i].from = ranges[j].from
                    /\ ranges[i].side <= ranges[j].side

\* C17: an error raised while the annotations are built is caught: the
\* AnnotationSet of a response-set transaction is the walk of the script, or
\* empty when the builder refuses the walk's ranges, and the rest of the
\* transaction is applied either way: the response is stored, the highlight
\* follows the selection, the promise chain of the widget runs.
C17_RenderingErrorsCaught ==
    ResponseSet
        => /\ response = FindEffect(lastEffects, "setGeneratedResponseEffect").value
           /\ highlight = buildSelectionHiglightStateUpdate(
                              EditorStateOf(selection, response))
           /\ AwaitingDecision(tooltip)
           /\ SortedRanges(diffDecorations)
           /\ diffDecorations =
                 IF SortedRanges(WalkDiffs(lastDiffs, StartOffset))
                 THEN WalkDiffs(lastDiffs, StartOffset)
                 ELSE <<>>

\* C17, witness: the builder has refused the ranges of a script with an
\* insert segment before a delete segment at one offset.
C17_BuilderRefused ==
    /\ ResponseSet
    /\ selection # Null
    /\ ~SortedRanges(WalkDiffs(lastDiffs, StartOffset))
    /\ diffDecorations = <<>>
    /\ response # Null

\* C18: the store is last-write-wins: a handler that set the selection (the
\* response) leaves the value it set, null included; a handler that neither
\* set nor dismissed leaves the value that was stored.
C18_LastWriteWins ==
    /\ HasEffect(lastEffects, "setSelectionInfoEffect")
          => selection = FindEffect(lastEffects, "setSelectionInfoEffect").value
    /\ HasEffect(lastEffects, "setGeneratedResponseEffect")
          => response = FindEffect(lastEffects, "setGeneratedResponseEffect").value
    /\ (/\ ~HasEffect(lastEffects, "setSelectionInfoEffect")
        /\ ~HasEffect(lastEffects, "dismissTooltipEffect"))
          => selection = before.fields.selection
    /\ (/\ ~HasEffect(lastEffects, "setGeneratedResponseEffect")
        /\ ~HasEffect(lastEffects, "dismissTooltipEffect"))
          => response = before.fields.response

\* C18, witness: an invocation with a bare cursor has cleared a stored
\* selection, the stored response staying as it was.
C18_SelectionCleared ==
    /\ HasEffect(lastEffects, "setSelectionInfoEffect")
    /\ before.fields.selection # Null
    /\ selection = Null
    /\ response # Null

\* C19: the core never retries a call: a submit starts at most one call, a
\* call that settles, resolved or rejected, is gone and starts no other, and
\* nothing else starts a call.
C19_NoRetry ==
    /\ lastEvent \in SettleEvents
          => BagCardinality(inflight) = BagCardinality(before.inflight) - 1
    /\ lastEvent \in {"SubmitClick", "SubmitEnter"}
          => \/ inflight = before.inflight
             \/ /\ BagCardinality(inflight) = BagCardinality(before.inflight) + 1
                /\ before.inflight \sqsubseteq inflight
    /\ lastEvent \notin SettleEvents \cup {"SubmitClick", "SubmitEnter"}
          => inflight = before.inflight

\* C19, witness: the only call in flight has failed, the widget still shown.
C19_FailedAndGone ==
    /\ lastEvent = "ClientRejects"
    /\ BagCardinality(before.inflight) = 1
    /\ inflight = EmptyBag
    /\ tooltip # Null

\* C20: while there is no client, a call to the API manager ends at once
\* with the 'client unavailable' text, invokes no backend and does not
\* reject (the promise chain of the widget runs its then), and there is no
\* client until an update of the settings creates one.
C20_NoClientNoCall ==
    /\ chatClient = Null => inflight = EmptyBag
    /\ (lastEvent = "SubmitClick" /\ before.chatClient = Null)
          => /\ inflight = before.inflight
             /\ \/ /\ lastEffects = <<>>
                   /\ tooltip = before.fields.tooltip
                \/ /\ AwaitingDecision(tooltip)
                   /\ tooltip.loaderHidden
                   /\ \/ lastEffects = <<>>
                      \/ /\ HasEffect(lastEffects, "setGeneratedResponseEffect")
                         /\ response.airesponse = ChatClientNotAvailable
    /\ (before.chatClient = Null /\ chatClient # Null)
          => /\ lastEvent = "UpdateSettings"
             /\ chatClient = initializeChatClient(settings)
    /\ (/\ lastEvent = "UpdateSettings"
        /\ before.chatClient = Null
        /\ initializeChatClient(settings) = Null)
          => chatClient = Null

\* C20, witness: after an update of the settings that created no client, a
\* submit has ended with the 'client unavailable' text.
C20_UnavailableAfterUpdate ==
    /\ lastEvent = "SubmitClick"
    /\ before.chatClient = Null
    /\ before.settings.provider = "openai"
    /\ HasEffect(lastEffects, "setGeneratedResponseEffect")
    /\ response.airesponse = ChatClientNotAvailable
    /\ AwaitingDecision(tooltip)

RECURSIVE Reconstruct(_, _)
Reconstruct(diffs, dropped) ==
    IF diffs = <<>> THEN <<>>
    ELSE (IF Head(diffs).op = dropped THEN <<>> ELSE Head(diffs).text)
             \o Reconstruct(Tail(diffs), dropped)

\* C22: the segments a rendering uses, after the semantic clean-up, cover
\* both texts: the equal and delete segments joined in order are the
\* selection text (the empty text without a selection), the equal and insert
\* segments joined in order are the response text; no segment is of another
\* kind.
C22_SegmentsCoverBothTexts ==
    ResponseSet
        => /\ \A i \in 1..Len(lastDiffs) :
                lastDiffs[i].op \in {DIFF_EQUAL, DIFF_DELETE, DIFF_INSERT}
           /\ Reconstruct(lastDiffs, DIFF_INSERT)
                = (IF selection = Null THEN <<>> ELSE selection.text)
           /\ Reconstruct(lastDiffs, DIFF_DELETE) = response.airesponse

\* C22, witness: a rendering whose clean-up has given an equality back: a
\* delete, an equal and an insert segment over texts of three characters.
C22_OverlapCovered ==
    /\ ResponseSet
    /\ selection # Null
    /\ Len(selection.text) = 3
    /\ Len(response.airesponse) = 3
    /\ Len(lastDiffs) = 3
    /\ lastDiffs[1].op = DIFF_DELETE
    /\ lastDiffs[2].op = DIFF_EQUAL
    /\ lastDiffs[3].op = DIFF_INSERT

\* The state of the overlay a widget stands for: no widget is Idle, a widget
\* whose loader shows is Submitting, one that offers Accept and Discard is
\* AwaitingDecision, any other is Composing.
Phase(w) ==
    IF w = Null THEN "Idle"
    ELSE IF ~w.loaderHidden THEN "Submitting"
    ELSE IF w.actionButtons THEN "AwaitingDecision"
    ELSE "Composing"

\* The states the overlay may be in after a handler that found it in `phase`.
Successors(phase) ==
    CASE phase = "Idle" -> {"Idle", "Composing"}
      [] phase = "Composing" -> {"Composing", "Submitting", "Idle"}
      [] phase = "Submitting" ->
             {"Submitting", "AwaitingDecision", "Composing", "Idle"}
      [] phase = "AwaitingDecision" -> {"AwaitingDecision", "Idle"}

\* C23: the overlay only moves along Idle -> Composing -> Submitting ->
\* AwaitingDecision -> Idle, with dismissal to Idle and failure from
\* Submitting back to Composing or Idle: every handler leaves the overlay in
\* a successor of the state it found it in, and a handler that found it in
\* AwaitingDecision leaves the same widget or none and starts no call.
C23_OverlayLifecycle ==
    /\ Phase(tooltip) \in Successors(Phase(before.fields.tooltip))
    /\ Phase(before.fields.tooltip) = "AwaitingDecision"
          => /\ tooltip = Null \/ tooltip = before.fields.tooltip
             /\ inflight \sqsubseteq before.inflight

\* C24: a response is not paired with the selection it was requested over:
\* whatever text the request carried, a response-set transaction renders the
\* response against the text of the SelectionInfo stored when it arrives,
\* from that selection's offset, and the change an Accept would commit
\* replaces that selection's range.
C24_RenderedAgainstStoredSelection ==
    (ResponseSet /\ selection # Null)
        => /\ Reconstruct(lastDiffs, DIFF_INSERT) = selection.text
           /\ Reconstruct(lastDiffs, DIFF_DELETE) = response.airesponse
           /\ \A i \in 1..Len(diffDecorations) :
                diffDecorations[i].from \in selection.from..selection.to
           /\ ChangeOf(EditorStateOf(selection, response))
                = [from |-> selection.from, to |-> selection.to,
                   insert |-> response.airesponse]

\* C24, witness: the command was invoked over another selection while the
\* call was in flight, and the response to the first selection's text has
\* been rendered over the second selection.
C24_ResponseToOtherSelection ==
    /\ lastEvent = "ClientResolves"
    /\ ResponseSet
    /\ before.lastEvent = "ShowCursorTooltip"
    /\ selection # Null
    /\ response.prompt.hasInput
    /\ response.prompt.input # selection.text
    /\ tooltip.selectionInfo = selection
    /\ selection.from > 0
    /\ diffDecorations # <<>>

C26_InvocationStoresSelection ==
    /\ lastEvent = "ShowCursorTooltip"
          => /\ lastEffects[2] = CommandEffect
             /\ selection = lastEffects[1].value
             /\ selection # Null
                   => /\ 0 <= selection.from
                      /\ selection.from < selection.to
                      /\ selection.to <= Len(doc)
                      /\ selection.text
                           = SubSeq(doc, selection.from + 1, selection.to)
             /\ doc = before.doc
             /\ tooltip # Null
             /\ Phase(tooltip) = "Composing"
             /\ tooltip.selectionInfo = selection
             /\ before.fields.tooltip # Null => tooltip.id # before.fields.tooltip.id
    /\ selection # Null
          => /\ selection.from < selection.to
             /\ Len(selection.text) = selection.to - selection.from

\* C26, witness: an invocation over a selection inside the buffer has stored
\* it and shown the overlay.
C26_SelectionStored ==
    /\ lastEvent = "ShowCursorTooltip"
    /\ selection # Null
    /\ selection.from > 0
    /\ selection.to < Len(doc)
    /\ before.fields.tooltip = Null
    /\ tooltip # Null

\* C27: in every reachable state the selection highlight is the range
\* [from, to] of the SelectionInfo stored, and there is none when no
\* SelectionInfo is stored.
C27_HighlightFollowsSelection ==
    /\ selection # Null
          => highlight = [from |-> selection.from, to |-> selection.to]
    /\ selection = Null => highlight = Null

\* C27, witness: an invocation over another selection has moved the
\* highlight from one range to another.
C27_HighlightMoved ==
    /\ lastEvent = "ShowCursorTooltip"
    /\ before.fields.highlight # Null
    /\ highlight # Null
    /\ highlight # before.fields.highlight
    /\ highlight.from > 0

\* C28: the commit of an Accept is deferred: the Accept leaves the buffer as
\* it is, clears the store and sets one timer that holds the SelectionInfo
\* and the GeneratedResponse of the state its accept transaction produced;
\* no handler run before the timer fires changes what a timer holds; and
\* the timer, when it fires, asks for the range and the text it holds,
\* whatever the store holds by then.
C28_CommitDeferred ==
    /\ lastEvent = "Accept"
          => /\ doc = before.doc
             /\ selection = Null
             /\ response = Null
             /\ timers = Append(before.timers,
                                [selection |-> before.fields.selection,
                                 response |-> before.fields.response])
    /\ lastEvent \notin {"Accept", "Commit", "init"} => timers = before.timers
    /\ lastEvent = "Commit"
          => /\ before.timers # <<>>
             /\ lastCommit.state = Head(before.timers)
             /\ timers = Tail(before.timers)
             /\ lastCommit.applied
                   => LET s == lastCommit.state.selection
                          r == lastCommit.state.response
                          from == IF s = Null THEN 0 ELSE s.from
                          to == IF s = Null THEN 0 ELSE s.to
                          text == IF r = Null THEN <<>> ELSE r.airesponse
                      IN  doc = SubSeq(before.doc, 1, from) \o text
                                  \o SubSeq(before.doc, to + 1, Len(before.doc))
             /\ ~lastCommit.applied => doc = before.doc

\* C28, witness: between an Accept and its commit the command was invoked
\* over another selection; the commit has replaced the range the timer held.
C28_CommittedAfterInvocation ==
    /\ lastEvent = "Commit"
    /\ before.lastEvent = "ShowCursorTooltip"
    /\ lastCommit.applied
    /\ lastCommit.state.selection # Null
    /\ lastCommit.state.response # Null
    /\ before.fields.selection # Null
    /\ before.fields.selection # lastCommit.state.selection
    /\ before.fields.response = Null
    /\ doc # before.doc

\* C29: in a cursor-only invocation no SelectionInfo is stored, so the
\* response is rendered as an 'added' annotation at offset 0 of the buffer
\* and the commit of the Accept inserts the response text at offset 0,
\* wherever in the buffer the cursor was.
C29_CursorResponseAtStart ==
    /\ (ResponseSet /\ selection = Null)
          => /\ diffDecorations # <<>>
             /\ \A i \in 1..Len(diffDecorations) :
                   /\ diffDecorations[i].type = "added"
                   /\ diffDecorations[i].from = 0
                   /\ diffDecorations[i].to = 0
    /\ (/\ lastEvent = "Commit"
        /\ lastCommit.state.selection = Null
        /\ lastCommit.state.response # Null)
          => /\ lastCommit.applied
             /\ doc = lastCommit.state.response.airesponse \o before.doc

\* C29, witness: the command was invoked with the cursor at the end of the
\* buffer, and the response is shown at offset 0.
C29_CursorAtEndRenderedAtStart ==
    /\ ResponseSet
    /\ selection = Null
    /\ tooltip # Null
    /\ tooltip.selectionInfo = Null
    /\ tooltip.pos = Len(doc)
    /\ Len(doc) >= 2
    /\ diffDecorations[1].from = 0

Busy == tooltip # Null /\ ~tooltip.loaderHidden

\* C31: Submitting always ends: while the widget shown shows its busy
\* indicator, a call it made is still in flight, and, every call settling
\* eventually, a widget that shows the busy indicator eventually hides it or
\* is gone, whether its call resolved or rejected.
C31_SubmittingEnds ==
    /\ [](Busy => \E request \in BagToSet(inflight) : request.widget = tooltip.id)
    /\ Busy ~> ~Busy

\* C31, witness: the call of the widget shown has been rejected and the
\* widget, which showed the busy indicator, has hidden it.
C31_BusyHiddenAfterFailure ==
    /\ lastEvent = "ClientRejects"
    /\ before.fields.tooltip # Null
    /\ ~before.fields.tooltip.loaderHidden
    /\ tooltip # Null
    /\ tooltip.id = before.fields.tooltip.id
    /\ tooltip.loaderHidden
    /\ inflight = EmptyBag

\* The text the widget w captured: that of its SelectionInfo, or the empty
\* text without one.
CapturedText(w) == IF w.selectionInfo = Null THEN <<>> ELSE w.selectionInfo.text

\* C32: a request uses the cursor prompt of the settings and carries no
\* input text exactly when the text its widget captured is empty or only
\* white space, and otherwise uses the selection prompt and carries the
\* captured text; the prompt is the one the settings held when the request
\* was made, and an update of the settings changes no request in flight.
C32_CursorModeByTrimmedText ==
    /\ lastEvent \in {"SubmitClick", "SubmitEnter"}
          => \A request \in BagToSet(inflight (-) before.inflight) :
                LET text == CapturedText(before.fields.tooltip)
                IN  /\ request.widget = before.fields.tooltip.id
                    /\ TrimIsEmpty(text)
                          => /\ request.systemPrompt = before.settings.cursorPrompt
                             /\ ~request.userRequest.hasInput
                             /\ request.userRequest.input = <<>>
                    /\ ~TrimIsEmpty(text)
                          => /\ request.systemPrompt = before.settings.selectionPrompt
                             /\ request.userRequest.hasInput
                             /\ request.userRequest.input = text
    /\ lastEvent = "UpdateSettings" => inflight = before.inflight

\* C32, witness: under edited settings, a selection of white space only has
\* been requested with the cursor prompt, while the range an Accept would
\* replace is the selection's, which is not empty.
C32_BlankSelectionAsCursor ==
    /\ lastEvent = "SubmitClick"
    /\ inflight # before.inflight
    /\ selection # Null
    /\ tooltip.selectionInfo = selection
    /\ selection.text # <<>>
    /\ TrimIsEmpty(selection.text)
    /\ settings.cursorPrompt # DEFAULT_SETTINGS.cursorPrompt
    /\ \E request \in BagToSet(inflight) :
          /\ request.systemPrompt = settings.cursorPrompt
          /\ ~request.userRequest.hasInput
    /\ ChangeOf(EditorStateOf(selection, response)).from
         < ChangeOf(EditorStateOf(selection, response)).to

\* C33: submitting an empty or white-space-only prompt is a no-op: every
\* call a submit starts carries a prompt that is not blank, and a submit that
\* starts no call while there is a client (the prompt was blank) shows no
\* busy indicator and leaves SelectionInfo, GeneratedResponse, annotations,
\* highlight and the widget as they were.
C33_BlankPromptNoOp ==
    lastEvent \in {"SubmitClick", "SubmitEnter"}
        => /\ \A request \in BagToSet(inflight (-) before.inflight) :
                ~TrimIsEmpty(request.userRequest.task)
           /\ (inflight = before.inflight /\ before.chatClient # Null)
                 => /\ Fields = before.fields
                    /\ lastEffects = <<>>
                    /\ doc = before.doc
                    /\ timers = before.timers

\* C33, witness: a submit in Composing has started no call and left the
\* widget in Composing, the submit button shown and the loader hidden.
C33_BlankSubmitted ==
    /\ lastEvent = "SubmitClick"
    /\ before.chatClient # Null
    /\ inflight = EmptyBag
    /\ before.inflight = EmptyBag
    /\ selection # Null
    /\ tooltip # Null
    /\ Phase(tooltip) = "Composing"
    /\ ~tooltip.submitHidden
    /\ response = Null

\* C34: a transaction that carries neither a response-set nor a dismiss
\* effect leaves the AnnotationSet as it was, the same annotations at the
\* same offsets: so do the handlers that dispatch only such transactions
\* (an edit of the buffer, an invocation that captures a new selection, a
\* submit, a commit), and so would the accept transaction in any state.
C34_OtherTransactionsKeepAnnotations ==
    /\ (/\ ~HasEffect(lastEffects, "setGeneratedResponseEffect")
        /\ ~HasEffect(lastEffects, "dismissTooltipEffect"))
          => diffDecorations = before.fields.diffDecorations
    /\ Transaction(Fields, <<AcceptTooltipEffect>>, NoCommand).diffDecorations
         = diffDecorations

\* C34, witness: an invocation has captured another selection, and the
\* annotations rendered for the earlier one are still there.
C34_KeptOverNewSelection ==
    /\ lastEvent = "ShowCursorTooltip"
    /\ diffDecorations # <<>>
    /\ selection # Null
    /\ before.fields.selection # Null
    /\ selection # before.fields.selection
    /\ response # Null
    /\ diffDecorations # generateDiffView(EditorStateOf(selection, response))

\* The client that can be created from settings s, by the rules of the
\* providers: none for openai without an API key.
Creatable(s) == ~(s.provider = "openai" /\ ~s.apiKey)

\* C35: an update of the settings whose client initialisation fails leaves
\* the client that was there in use; an update whose initialisation succeeds
\* replaces it by the client created from the new settings; and nothing but
\* an update of the settings changes the settings or the client.
C35_FailedUpdateKeepsClient ==
    /\ lastEvent = "UpdateSettings"
          => /\ ~Creatable(settings) => chatClient = before.chatClient
             /\ Creatable(settings)
                   => /\ chatClient # Null
                      /\ chatClient.createdFrom.provider = settings.provider
                      /\ chatClient.createdFrom.apiKey = settings.apiKey
    /\ lastEvent # "UpdateSettings"
          => /\ chatClient = before.chatClient
             /\ settings = before.settings

\* C35, witness: after an update to settings no client can be created from,
\* which also edited the prompts, a submit has started a call with the new
\* prompts on the client created earlier.
C35_OldClientNewSettings ==
    /\ lastEvent = "SubmitClick"
    /\ ~Creatable(settings)
    /\ settings.cursorPrompt # DEFAULT_SETTINGS.cursorPrompt
    /\ chatClient # Null
    /\ chatClient.createdFrom.provider # settings.provider
    /\ inflight # before.inflight
    /\ \E request \in BagToSet(inflight) :
          request.systemPrompt \in {settings.cursorPrompt, settings.selectionPrompt}

====
